---------------------------- MODULE Spec2Model ----------------------------
(***************************************************************************)
(* Model of crates/typst-pdf/src/krilla.rs: the page driver pdf(), the     *)
(* frame walker process_frame, the state stack FrameContext and the        *)
(* drawing handlers, run against a recording surface backend.              *)
(*                                                                         *)
(* Lengths are small integers, on which Abs::to_f32 is exact.  An affine   *)
(* transform of the document model is the record                           *)
(*   [sx, ky, kx, sy, tx, ty]   (x' = sx*x + kx*y + tx, y' = ky*x + sy*y + ty)*)
(* and a transform of the backend is the row <<a, b, c, d, e, f>>.         *)
(***************************************************************************)
EXTENDS Integers, Sequences, FiniteSets, TLC

(***************************************************************************)
(* Bounds of the explored inputs.                                          *)
(***************************************************************************)
\* Deepest nesting of groups in the generated page frames.
MaxDepth == 2

\* Most pages of a multi-page document.
MaxPages == 2

\* Most calls of pdf(), one after the other, on the document.
MaxInvocations == 2

(***************************************************************************)
(* typst_library::layout: Transform, Point, Size.                          *)
(***************************************************************************)
Transform(sx, ky, kx, sy, tx, ty) == [sx |-> sx, ky |-> ky, kx |-> kx, sy |-> sy, tx |-> tx, ty |-> ty]

identity == Transform(1, 0, 0, 1, 0, 0)

translate(x, y) == Transform(1, 0, 0, 1, x, y)

scale(x, y) == Transform(x, 0, 0, y, 0, 0)

\* A quarter turn.
rotate90 == Transform(0, 1, -1, 0, 0, 0)

\* self.pre_concat(prev): the transform that applies prev first, then self.
pre_concat(self, prev) ==
    Transform(self.sx * prev.sx + self.kx * prev.ky,
              self.ky * prev.sx + self.sy * prev.ky,
              self.sx * prev.kx + self.kx * prev.sy,
              self.ky * prev.kx + self.sy * prev.sy,
              self.sx * prev.tx + self.kx * prev.ty + self.tx,
              self.ky * prev.tx + self.sy * prev.ty + self.ty)

Point(x, y) == [x |-> x, y |-> y]

Size(x, y) == [x |-> x, y |-> y]

\* point.transform(ts)
point_transform(p, ts) == Point(ts.sx * p.x + ts.kx * p.y + ts.tx, ts.ky * p.x + ts.sy * p.y + ts.ty)

(***************************************************************************)
(* crate::primitive: conversions to backend values.                        *)
(***************************************************************************)
\* TransformExt::as_krilla: the row-major backend transform.
as_krilla(t) == <<t.sx, t.ky, t.kx, t.sy, t.tx, t.ty>>

\* SizeExt::as_krilla
size_as_krilla(s) == <<s.x, s.y>>

(***************************************************************************)
(* krilla::geom::Transform, as the surface composes pending transforms.    *)
(***************************************************************************)
k_identity == <<1, 0, 0, 1, 0, 0>>

\* a then-inner b: the backend's pre_concat of two rows.
k_concat(a, b) ==
    <<a[1] * b[1] + a[3] * b[2],
      a[2] * b[1] + a[4] * b[2],
      a[1] * b[3] + a[3] * b[4],
      a[2] * b[3] + a[4] * b[4],
      a[1] * b[5] + a[3] * b[6] + a[5],
      a[2] * b[5] + a[4] * b[6] + a[6]>>

(***************************************************************************)
(* The input: typst_library's document model.  Option<T> is a sequence of  *)
(* length 0 (None) or 1 (Some).                                            *)
(***************************************************************************)
None == <<>>

Some(x) == <<x>>

\* Stroke thicknesses are Abs values; only the sign matters to the handlers.
FixedStroke(paint, thickness) == [paint |-> paint, thickness |-> thickness]

\* Geometry::Line / Geometry::Rect / Geometry::Path
Line(x, y) == [g |-> "line", x |-> x, y |-> y, items |-> <<>>]

Rect(x, y) == [g |-> "rect", x |-> x, y |-> y, items |-> <<>>]

Path(items) == [g |-> "path", x |-> 0, y |-> 0, items |-> items]

MoveTo(x, y) == [verb |-> "MoveTo", x |-> x, y |-> y]

LineTo(x, y) == [verb |-> "LineTo", x |-> x, y |-> y]

ClosePath == [verb |-> "ClosePath", x |-> 0, y |-> 0]

Triangle == <<MoveTo(0, 0), LineTo(10, 0), LineTo(0, 10), ClosePath>>

\* The variants of FrameItem.
Text(font, fill, stroke) == [type |-> "text", font |-> font, fill |-> fill, stroke |-> stroke]

Shape(geometry, fill, stroke) == [type |-> "shape", geometry |-> geometry, fill |-> fill, fill_rule |-> "NonZero", stroke |-> stroke]

Raster(id, size) == [type |-> "image", kind |-> "raster", id |-> id, size |-> size]

Svg(id, size) == [type |-> "image", kind |-> "svg", id |-> id, size |-> size]

Link(dest, size) == [type |-> "link", dest |-> dest, size |-> size]

Tag == [type |-> "tag"]

Group(transform, clip_path, frame) == [type |-> "group", transform |-> transform, clip_path |-> clip_path, frame |-> frame]

Frame(kind, size, items) == [kind |-> kind, size |-> size, items |-> items]

At(point, item) == [point |-> point, item |-> item]

Page(frame, fill) == [frame |-> frame, fill |-> fill]

\* Destination::Url / Position / Location
Url(u) == [d |-> "url", url |-> u, page |-> 0, point |-> Point(0, 0)]

Position(page, point) == [d |-> "position", url |-> "", page |-> page, point |-> point]

Location == [d |-> "location", url |-> "", page |-> 0, point |-> Point(0, 0)]

\* Fonts whose data krilla's Font::new rejects, rasters that fail to decode.
RejectedFonts == {"FBad"}

UndecodableRasters == {"PBad"}

(***************************************************************************)
(* The explored documents.  A generated page holds, at every level, a leaf *)
(* item, a group (down to the chosen depth) and a second leaf item; the    *)
(* scenario pages are those of the specification's end-to-end scenarios.   *)
(***************************************************************************)
Leaves ==
    << Text("F1", "black", None),
       Text("F2", "gradient", Some(FixedStroke("red", 1))),
       Text("F1", "black", Some(FixedStroke("red", 0))),
       Text("FBad", "black", None),
       Shape(Rect(10, 10), Some("red"), None),
       Shape(Rect(40, 40), Some("gradient"), Some(FixedStroke("black", 2))),
       Shape(Line(10, 5), None, Some(FixedStroke("black", 0))),
       Shape(Path(<<>>), Some("red"), Some(FixedStroke("black", 1))),
       Shape(Rect(-10, 20), Some("red"), None),
       Shape(Path(Triangle), Some("red"), Some(FixedStroke("black", -1))),
       Raster("P1", Size(8, 8)),
       Raster("PBad", Size(8, 8)),
       Svg("S1", Size(8, 8)),
       Link(Url("https://x"), Size(40, 20)),
       Link(Position(2, Point(1, 1)), Size(10, 10)),
       Link(Location, Size(40, 20)),
       Tag >>

\* The second leaf of a generated frame is the one after the first in Leaves.
NextLeaf(i) == (i % Len(Leaves)) + 1

GroupVariants ==
    << [transform |-> identity, clip_path |-> None, kind |-> "soft", size |-> Size(60, 40)],
       [transform |-> rotate90, clip_path |-> Some(Triangle), kind |-> "hard", size |-> Size(40, 40)],
       [transform |-> scale(2, 3), clip_path |-> Some(<<>>), kind |-> "hard", size |-> Size(20, 30)],
       [transform |-> Transform(1, 1, -1, 1, 3, 4), clip_path |-> Some(Triangle), kind |-> "soft", size |-> Size(30, 30)] >>

RECURSIVE NestedItems(_, _)
\* The items of a generated frame: leaf i, the groups vs (outermost first), leaf i+1.
NestedItems(i, vs) ==
    IF vs = <<>>
    THEN << At(Point(30, 10), Leaves[i]), At(Point(5, 0), Leaves[NextLeaf(i)]) >>
    ELSE LET v == GroupVariants[Head(vs)]
         IN << At(Point(30, 10), Leaves[i]),
               At(Point(20, 20), Group(v.transform, v.clip_path, Frame(v.kind, v.size, NestedItems(i, Tail(vs))))),
               At(Point(5, 0), Leaves[NextLeaf(i)]) >>

VariantSeqs == UNION { [1..n -> 1..Len(GroupVariants)] : n \in 0..MaxDepth }

GeneratedPages ==
    { Page(Frame(kind, Size(100, 50), NestedItems(i, vs)), IF kind = "hard" THEN Some("white") ELSE None) :
        i \in 1..Len(Leaves), vs \in VariantSeqs, kind \in {"soft", "hard"} }

\* Scenario 1: a single text run.
TextPage == Page(Frame("hard", Size(100, 20), << At(Point(10, 15), Text("F1", "black", None)) >>), None)

\* Scenario 2: a rotated group holding a filled rectangle.
RotatedPage ==
    Page(Frame("soft", Size(200, 200),
               << At(Point(50, 50), Group(rotate90, None, Frame("soft", Size(10, 10),
                     << At(Point(0, 0), Shape(Rect(10, 10), Some("red"), None)) >>))) >>), Some("white"))

\* Scenario 3: a link within a hard frame.
LinkPage == Page(Frame("hard", Size(100, 50), << At(Point(30, 10), Link(Url("https://x"), Size(40, 20))) >>), None)

\* Scenario 4: a font and a raster image used repeatedly, another font in between.
RepeatPage ==
    Page(Frame("hard", Size(100, 50),
               << At(Point(0, 10), Text("F1", "black", None)),
                  At(Point(0, 20), Raster("P1", Size(8, 8))),
                  At(Point(0, 30), Text("F2", "black", None)),
                  At(Point(10, 10), Group(identity, None, Frame("soft", Size(50, 20),
                     << At(Point(1, 1), Text("F1", "black", None)),
                        At(Point(2, 2), Raster("P1", Size(8, 8))) >>))),
                  At(Point(0, 40), Text("F1", "black", None)),
                  At(Point(0, 45), Raster("P1", Size(4, 4))) >>), None)

\* Scenario 5: rectangles of negative width, height or both, filled only,
\* next to one of positive size and one of no width.
NegativeRectPage ==
    Page(Frame("soft", Size(100, 50),
               << At(Point(50, 10), Shape(Rect(-10, 20), Some("red"), None)),
                  At(Point(50, 30), Shape(Rect(10, -20), Some("red"), None)),
                  At(Point(60, 30), Shape(Rect(-10, -20), Some("black"), None)),
                  At(Point(0, 0), Shape(Rect(10, 20), Some("red"), None)),
                  At(Point(5, 5), Shape(Rect(0, -5), Some("red"), None)) >>), None)

\* Scenario 6: a gradient-filled shape in a nested hard frame.
ContainerPage ==
    Page(Frame("hard", Size(100, 100),
               << At(Point(20, 20), Group(identity, None, Frame("hard", Size(40, 40),
                     << At(Point(0, 0), Shape(Rect(40, 40), Some("gradient"), None)) >>))),
                  At(Point(1, 2), Text("F2", "gradient", None)) >>), Some("white"))

\* Links of every destination below a scaled and clipped group, between drawn items.
LinksPage ==
    Page(Frame("soft", Size(100, 50),
               << At(Point(3, 4), Link(Location, Size(5, 5))),
                  At(Point(10, 10), Group(scale(2, 3), Some(Triangle), Frame("soft", Size(30, 30),
                     << At(Point(1, 2), Link(Position(1, Point(0, 0)), Size(10, 10))),
                        At(Point(6, 6), Link(Location, Size(1, 1))),
                        At(Point(7, 7), Shape(Rect(2, 2), Some("red"), Some(FixedStroke("black", 1)))) >>))),
                  At(Point(30, 10), Link(Url("https://y"), Size(40, 20))),
                  At(Point(0, 0), Svg("S1", Size(8, 8))) >>), None)

ScenarioPages == << TextPage, RotatedPage, LinkPage, RepeatPage, NegativeRectPage, ContainerPage, LinksPage >>

Range(s) == { s[i] : i \in DOMAIN s }

\* PagedDocument.pages: one generated page, or up to MaxPages scenario pages.
Documents ==
    { <<p>> : p \in GeneratedPages }
      \cup UNION { [1..n -> Range(ScenarioPages)] : n \in 1..MaxPages }

(***************************************************************************)
(* State and FrameContext.                                                 *)
(***************************************************************************)
State_new(size, transform_chain, container_transform_chain) ==
    [transform_chain |-> transform_chain,
     transform |-> identity,
     container_transform_chain |-> container_transform_chain,
     size |-> size]

State_size(self, size) == [self EXCEPT !.size = size]

\* Mutant of State::transform: the operands of the concatenation are swapped.
State_transform_swapped(self, transform) ==
    [self EXCEPT !.transform = pre_concat(transform, self.transform),
                 !.transform_chain = pre_concat(transform, self.transform_chain)]

State_transform(self, transform) ==
    [self EXCEPT !.transform = pre_concat(self.transform, transform),
                 !.transform_chain = pre_concat(self.transform_chain, transform)]

\* Mutant of set_container_transform: the chain is not frozen.
set_container_transform_unset(self) == self

set_container_transform(self) == [self EXCEPT !.container_transform_chain = self.transform_chain]

\* State::transforms: the Transforms record handed to paint construction.
transforms(self, size) ==
    [transform_chain_ |-> self.transform_chain,
     transform_ |-> self.transform,
     container_transform_chain |-> self.container_transform_chain,
     container_size |-> self.size,
     size |-> size]

FrameContext_new(size) == [states |-> << State_new(size, identity, identity) >>, annotations |-> <<>>]

\* states.last().unwrap()
state(fc) == fc.states[Len(fc.states)]

\* Mutant of push: the copy starts with a transform of its own, the identity.
push_relative(fc) == [fc EXCEPT !.states = Append(@, [state(fc) EXCEPT !.transform = identity])]

push(fc) == [fc EXCEPT !.states = Append(@, state(fc))]

\* Mutant of pop: the pop is forgotten.
pop_forgotten(fc) == fc

\* Vec::pop: removes the last element, and does nothing on an empty vector.
pop(fc) == [fc EXCEPT !.states = IF @ = <<>> THEN @ ELSE SubSeq(@, 1, Len(@) - 1)]

\* fc.state_mut() followed by an update s of the top state.
state_mut(fc, s) == [fc EXCEPT !.states[Len(fc.states)] = s]

(***************************************************************************)
(* The machine a handler runs on: the frame context, the page's surface,   *)
(* the global context, the record of backend calls, and whether an         *)
(* unwrap() has panicked.                                                  *)
(***************************************************************************)
GlobalContext_new == [fonts |-> <<>>]

RECURSIVE current_transform(_)
\* The composition, bottom to top, of the transforms pending on the surface.
current_transform(stack) ==
    IF stack = <<>> THEN k_identity
    ELSE LET below == current_transform(SubSeq(stack, 1, Len(stack) - 1))
             top == stack[Len(stack)]
         IN IF top.kind = "transform" THEN k_concat(below, top.t) ELSE below

\* One call received by the backend, with the surface as it was at the call.
Call(m, op, arg) ==
    [op |-> op, page |-> m.surface.page, depth |-> Len(m.surface.stack),
     ctm |-> current_transform(m.surface.stack), arg |-> arg,
     pending |-> [i \in DOMAIN m.surface.stack |-> m.surface.stack[i].kind]]

record(m, op, arg) == [m EXCEPT !.log = Append(@, Call(m, op, arg))]

Surface_new(page) == [page |-> page, stack |-> <<>>, underflow |-> FALSE, finished |-> FALSE]

push_transform(m, t) ==
    [record(m, "push_transform", [t |-> t]) EXCEPT !.surface.stack = Append(@, [kind |-> "transform", t |-> t])]

push_clip_path(m, path, rule) ==
    [record(m, "push_clip_path", [path |-> path, rule |-> rule]) EXCEPT
        !.surface.stack = Append(@, [kind |-> "clip", t |-> k_identity])]

\* Surface::pop; a pop with nothing pending is remembered as an underflow.
surface_pop(m) ==
    [record(m, "pop", [t |-> k_identity]) EXCEPT
        !.surface.stack = IF @ = <<>> THEN @ ELSE SubSeq(@, 1, Len(@) - 1),
        !.surface.underflow = @ \/ m.surface.stack = <<>>]

DrawOps == {"fill_path", "stroke_path", "fill_glyphs", "stroke_glyphs", "draw_image", "draw_svg"}

(***************************************************************************)
(* krilla::path::PathBuilder and the usvg Rect, as the handlers use them.  *)
(***************************************************************************)
pb_move_to(b, x, y) == Append(b, [verb |-> "M", x |-> x, y |-> y])

pb_line_to(b, x, y) == Append(IF b = <<>> THEN pb_move_to(b, 0, 0) ELSE b, [verb |-> "L", x |-> x, y |-> y])

pb_cubic_to(b, x, y) == Append(IF b = <<>> THEN pb_move_to(b, 0, 0) ELSE b, [verb |-> "C", x |-> x, y |-> y])

pb_close(b) == IF b = <<>> \/ b[Len(b)].verb = "Z" THEN b ELSE Append(b, [verb |-> "Z", x |-> 0, y |-> 0])

pb_push_rect(b, r) ==
    b \o << [verb |-> "M", x |-> r.l, y |-> r.t], [verb |-> "L", x |-> r.r, y |-> r.t],
            [verb |-> "L", x |-> r.r, y |-> r.b], [verb |-> "L", x |-> r.l, y |-> r.b],
            [verb |-> "Z", x |-> 0, y |-> 0] >>

\* PathBuilder::finish: no path from an empty builder or a lone move_to.
pb_finish(b) == IF Len(b) <= 1 THEN None ELSE Some(b)

\* Path::transform by a backend transform t.
path_transform(b, t) ==
    Some([i \in DOMAIN b |->
            IF b[i].verb = "Z" THEN b[i]
            ELSE [verb |-> b[i].verb, x |-> t[1] * b[i].x + t[3] * b[i].y + t[5],
                                      y |-> t[2] * b[i].x + t[4] * b[i].y + t[6]]])

Min2(a, b) == IF a <= b THEN a ELSE b

Max2(a, b) == IF a >= b THEN a ELSE b

\* Rect::from_ltrb: None unless left <= right and top <= bottom.
Rect_from_ltrb(l, t, r, b) == IF l <= r /\ t <= b THEN Some([l |-> l, t |-> t, r |-> r, b |-> b]) ELSE None

Rect_from_xywh(x, y, w, h) == Rect_from_ltrb(x, y, x + w, y + h)

\* Rect::transform by from_scale(sx, sy): the bounds of the scaled rectangle.
Rect_scale(r, sx, sy) ==
    Rect_from_ltrb(Min2(sx * r.l, sx * r.r), Min2(sy * r.t, sy * r.b),
                   Max2(sx * r.l, sx * r.r), Max2(sy * r.t, sy * r.b))

\* f32::signum: 1.0 for +0.0 and above, -1.0 below.
signum(x) == IF x < 0 THEN -1 ELSE 1

abs(x) == IF x < 0 THEN -x ELSE x

RECURSIVE convert_path(_, _)
convert_path(path, builder) ==
    IF path = <<>> THEN builder
    ELSE LET item == Head(path)
         IN convert_path(Tail(path),
                CASE item.verb = "MoveTo" -> pb_move_to(builder, item.x, item.y)
                  [] item.verb = "LineTo" -> pb_line_to(builder, item.x, item.y)
                  [] item.verb = "CubicTo" -> pb_cubic_to(builder, item.x, item.y)
                  [] item.verb = "ClosePath" -> pb_close(builder))

\* Geometry::bbox_size
bbox_size(geometry) ==
    IF geometry.g = "path"
    THEN LET xs == {0} \cup { geometry.items[i].x : i \in DOMAIN geometry.items }
             ys == {0} \cup { geometry.items[i].y : i \in DOMAIN geometry.items }
         IN Size(CHOOSE a \in xs : \A c \in xs : c <= a, CHOOSE a \in ys : \A c \in ys : c <= a)
    ELSE Size(geometry.x, geometry.y)

(***************************************************************************)
(* crate::paint: the Fill or Stroke built for a paint keeps the Transforms *)
(* it was built with.                                                      *)
(***************************************************************************)
paint_fill(paint, fill_rule, on_text, ts) == [paint |-> paint, rule |-> fill_rule, on_text |-> on_text, transforms |-> ts]

paint_stroke(stroke, on_text, ts) == [paint |-> stroke.paint, thickness |-> stroke.thickness, on_text |-> on_text, transforms |-> ts]

(***************************************************************************)
(* The handlers.  Each maps the machine at its entry to the machine at its *)
(* return, or to the machine at the failing unwrap() (m.panicked).         *)
(***************************************************************************)
\* krilla::font::Font::new: an error for rejected data, else a new handle.
Font_new(m, font) ==
    LET called == record(m, "Font::new", [font |-> font])
        made == Cardinality({ i \in DOMAIN called.log : called.log[i].op = "Font::new" })
    IN [m |-> called, font |-> IF font \in RejectedFonts THEN None ELSE Some([data |-> font, id |-> made])]

\* Mutant of font_entry: the map is not consulted, every use builds the font.
font_entry_always_new(m, font) ==
    LET r == Font_new(m, font)
    IN IF r.font = None
       THEN [m |-> [r.m EXCEPT !.panicked = TRUE], font |-> None]
       ELSE [m |-> [r.m EXCEPT !.gc.fonts = (font :> r.font[1]) @@ @], font |-> r.font]

\* gc.fonts.entry(font).or_insert_with(Font::new(..).unwrap()).clone()
font_entry(m, font) ==
    IF font \in DOMAIN m.gc.fonts
    THEN [m |-> m, font |-> Some(m.gc.fonts[font])]
    ELSE LET r == Font_new(m, font)
         IN IF r.font = None
            THEN [m |-> [r.m EXCEPT !.panicked = TRUE], font |-> None]
            ELSE [m |-> [r.m EXCEPT !.gc.fonts = @ @@ (font :> r.font[1])], font |-> r.font]

\* crate::image::raster(raster.clone()): the call is handed the raster and
\* nothing else, no GlobalContext and no cache, so every call is a decode; the
\* handle it returns names the decode that made it.
raster(m, id) ==
    LET decoding == record(m, "decode", [raster |-> id])
        made == Cardinality({ i \in DOMAIN decoding.log : decoding.log[i].op = "decode" })
    IN [m |-> decoding,
        image |-> IF id \in UndecodableRasters THEN None ELSE Some([data |-> id, id |-> made])]

handle_text(m, t) ==
    LET e == font_entry(m, t.font)
    IN IF e.m.panicked THEN e.m
       ELSE LET font == e.font[1]
                fill == paint_fill(t.fill, "NonZero", TRUE, transforms(state(e.m.fc), Size(0, 0)))
                m1 == push_transform(e.m, as_krilla(state(e.m.fc).transform))
                m2 == record(m1, "fill_glyphs", [paint |-> fill, font |-> font])
                m3 == IF t.stroke = None THEN m2
                      ELSE record(m2, "stroke_glyphs",
                                  [paint |-> paint_stroke(t.stroke[1], TRUE, transforms(state(m2.fc), Size(0, 0))),
                                   font |-> font])
            IN surface_pop(m3)

handle_image(m, image, size) ==
    LET m1 == push_transform(m, as_krilla(state(m.fc).transform))
    IN IF image.kind = "raster"
       THEN LET r == raster(m1, image.id)
            IN IF r.image = None THEN [r.m EXCEPT !.panicked = TRUE]
               ELSE surface_pop(record(r.m, "draw_image", [image |-> r.image[1], size |-> size_as_krilla(size)]))
       ELSE surface_pop(record(m1, "draw_svg", [image |-> [data |-> image.id, id |-> 0], size |-> size_as_krilla(size)]))

\* Mutant of shape_path: a rectangle of negative size is built from its
\* absolute size and not reflected.
shape_path_unreflected(geometry) ==
    CASE geometry.g = "line" -> pb_line_to(pb_move_to(<<>>, 0, 0), geometry.x, geometry.y)
      [] geometry.g = "rect" ->
            LET rect == Rect_from_xywh(0, 0, abs(geometry.x), abs(geometry.y))
            IN IF rect = None THEN <<>> ELSE pb_push_rect(<<>>, rect[1])
      [] geometry.g = "path" -> convert_path(geometry.items, <<>>)

\* The path built for a shape's geometry.
shape_path(geometry) ==
    CASE geometry.g = "line" -> pb_line_to(pb_move_to(<<>>, 0, 0), geometry.x, geometry.y)
      [] geometry.g = "rect" ->
            LET w == geometry.x
                h == geometry.y
                rect == IF w < 0 \/ h < 0
                        THEN LET r == Rect_from_xywh(0, 0, abs(w), abs(h))
                             IN IF r = None THEN None ELSE Rect_scale(r[1], signum(w), signum(h))
                        ELSE Rect_from_xywh(0, 0, w, h)
            IN IF rect = None THEN <<>> ELSE pb_push_rect(<<>>, rect[1])
      [] geometry.g = "path" -> convert_path(geometry.items, <<>>)

\* Mutant of shape_draw: the stroke is drawn before the fill.
shape_draw_stroke_first(m, shape, path) ==
    LET stroke == IF shape.stroke # None /\ shape.stroke[1].thickness > 0 THEN shape.stroke ELSE None
        m2 == IF stroke = None THEN m
              ELSE record(m, "stroke_path",
                          [path |-> path,
                           paint |-> paint_stroke(stroke[1], FALSE, transforms(state(m.fc), bbox_size(shape.geometry)))])
    IN IF shape.fill = None THEN m2
       ELSE record(m2, "fill_path",
                   [path |-> path,
                    paint |-> paint_fill(shape.fill[1], shape.fill_rule, FALSE,
                                         transforms(state(m2.fc), bbox_size(shape.geometry)))])

\* The body of `if let Some(path) = path_builder.finish()`: the fill, then the stroke.
shape_draw(m, shape, path) ==
    LET m2 == IF shape.fill = None THEN m
              ELSE record(m, "fill_path",
                          [path |-> path,
                           paint |-> paint_fill(shape.fill[1], shape.fill_rule, FALSE,
                                                transforms(state(m.fc), bbox_size(shape.geometry)))])
        stroke == IF shape.stroke # None /\ shape.stroke[1].thickness > 0 THEN shape.stroke ELSE None
    IN IF stroke = None THEN m2
       ELSE record(m2, "stroke_path",
                   [path |-> path,
                    paint |-> paint_stroke(stroke[1], FALSE, transforms(state(m2.fc), bbox_size(shape.geometry)))])

\* Mutant of handle_shape: an empty path returns early, before the pop.
handle_shape_early_return(m, shape) ==
    LET m1 == push_transform(m, as_krilla(state(m.fc).transform))
        path == pb_finish(shape_path(shape.geometry))
    IN IF path = None THEN m1 ELSE surface_pop(shape_draw(m1, shape, path[1]))

handle_shape(m, shape) ==
    LET path_builder == shape_path(shape.geometry)
        m1 == push_transform(m, as_krilla(state(m.fc).transform))
        path == pb_finish(path_builder)
    IN surface_pop(IF path = None THEN m1 ELSE shape_draw(m1, shape, path[1]))

\* Mutant of link_corners: only two opposite corners are mapped.
link_corners_diagonal(fc, size) ==
    { point_transform(p, state(fc).transform) : p \in { Point(0, 0), Point(size.x, size.y) } }

\* The corners of the link's box mapped through the item's transform.
link_corners(fc, size) ==
    { point_transform(p, state(fc).transform) :
        p \in { Point(0, 0), Point(size.x, 0), Point(0, size.y), Point(size.x, size.y) } }

\* Mutant of write_link: a Location falls through to a destination on the first page.
write_link_location_emitted(m, dest, size) ==
    LET ts == link_corners(m.fc, size)
        min_x == CHOOSE a \in { t.x : t \in ts } : \A t \in ts : a <= t.x
        min_y == CHOOSE a \in { t.y : t \in ts } : \A t \in ts : a <= t.y
        max_x == CHOOSE a \in { t.x : t \in ts } : \A t \in ts : a >= t.x
        max_y == CHOOSE a \in { t.y : t \in ts } : \A t \in ts : a >= t.y
        rect == Rect_from_ltrb(min_x, min_y, max_x, max_y)
    IN IF rect = None THEN [m EXCEPT !.panicked = TRUE]
       ELSE LET target == IF dest.d = "url"
                          THEN [target |-> "Action", url |-> dest.url, page |-> 0, point |-> Point(0, 0)]
                          ELSE [target |-> "Destination", url |-> "", page |-> dest.page - 1, point |-> dest.point]
            IN [m EXCEPT !.fc.annotations = Append(@, [rect |-> rect[1], target |-> target])]

write_link(m, dest, size) ==
    LET ts == link_corners(m.fc, size)
        min_x == CHOOSE a \in { t.x : t \in ts } : \A t \in ts : a <= t.x
        min_y == CHOOSE a \in { t.y : t \in ts } : \A t \in ts : a <= t.y
        max_x == CHOOSE a \in { t.x : t \in ts } : \A t \in ts : a >= t.x
        max_y == CHOOSE a \in { t.y : t \in ts } : \A t \in ts : a >= t.y
        rect == Rect_from_ltrb(min_x, min_y, max_x, max_y)
    IN IF rect = None THEN [m EXCEPT !.panicked = TRUE]
       ELSE IF dest.d = "location" THEN m
       ELSE LET target == IF dest.d = "url"
                          THEN [target |-> "Action", url |-> dest.url, page |-> 0, point |-> Point(0, 0)]
                          ELSE [target |-> "Destination", url |-> "", page |-> dest.page - 1, point |-> dest.point]
            IN [m EXCEPT !.fc.annotations = Append(@, [rect |-> rect[1], target |-> target])]

(***************************************************************************)
(* The program state.                                                      *)
(***************************************************************************)
VARIABLES
    doc,        \* typst_document.pages, the input of pdf()
    pc,         \* where pdf() stands
    page,       \* index of the page the loop of pdf() is at
    calls,      \* the process_frame activations in progress, outermost first
    fc,         \* the page's FrameContext
    surface,    \* the page's surface: its pending transforms and clip paths
    gc,         \* the GlobalContext
    log,        \* every call the backend has received from this pdf()
    last,       \* the function that returned last, with the stack depths at its entry and return
    invocation  \* how many times pdf() has been entered

vars == <<doc, pc, page, calls, fc, surface, gc, log, last, invocation>>

NoReturn ==
    [fn |-> "none", item |-> Tag, states_in |-> 0, states_out |-> 0, surface_in |-> 0, surface_out |-> 0,
     log_in |-> 0, log_out |-> 0, annotations_in |-> 0, annotations_out |-> 0,
     stack_in |-> <<>>, stack_out |-> <<>>]

\* What is remembered of a call of fn for item: the machine at entry and at return.
Returned(fn, item, before, after) ==
    [fn |-> fn, item |-> item,
     states_in |-> Len(before.fc.states), states_out |-> Len(after.fc.states),
     surface_in |-> Len(before.surface.stack), surface_out |-> Len(after.surface.stack),
     log_in |-> Len(before.log), log_out |-> Len(after.log),
     annotations_in |-> Len(before.fc.annotations), annotations_out |-> Len(after.fc.annotations),
     stack_in |-> before.fc.states, stack_out |-> after.fc.states]

\* What is remembered of the turn of process_frame's loop for an item: the
\* call of its handler fn, between the state stack as it was before the
\* item's push and as it is after the item's pop.
Turn(fn, item, before, after, stack_in, stack_out) ==
    [Returned(fn, item, before, after) EXCEPT !.stack_in = stack_in, !.stack_out = stack_out]

Machine == [fc |-> fc, surface |-> surface, gc |-> gc, log |-> log, panicked |-> FALSE]

Commit(m) ==
    /\ fc' = m.fc
    /\ surface' = m.surface
    /\ gc' = m.gc
    /\ log' = m.log

\* The activation of process_frame that is running, and the item its loop is at.
Top == calls[Len(calls)]

AtItem == pc = "items" /\ Top.i <= Len(Top.frame.items)

Item == Top.frame.items[Top.i]

Advance == [calls EXCEPT ![Len(calls)].i = @ + 1]

Init ==
    /\ doc \in Documents
    /\ pc = "idle"
    /\ page = 0
    /\ calls = <<>>
    /\ fc = [states |-> <<>>, annotations |-> <<>>]
    /\ surface = Surface_new(0)
    /\ gc = GlobalContext_new
    /\ log = <<>>
    /\ last = NoReturn
    /\ invocation = 0

(***************************************************************************)
(* pdf(): the page driver.                                                 *)
(***************************************************************************)
\* Entry of pdf(): a new krilla Document and a new GlobalContext.
pdf_start ==
    /\ pc \in {"idle", "done"}
    /\ invocation < MaxInvocations
    /\ invocation' = invocation + 1
    /\ pc' = "pages"
    /\ page' = 1
    /\ calls' = <<>>
    /\ fc' = [states |-> <<>>, annotations |-> <<>>]
    /\ surface' = Surface_new(0)
    /\ gc' = GlobalContext_new
    /\ log' = <<>>
    /\ last' = NoReturn
    /\ UNCHANGED doc

\* Mutant of start_page: the frame context of the page before is reused,
\* its states reset and its annotations left in place.
start_page_reused_context ==
    /\ pc = "pages"
    /\ page <= Len(doc)
    /\ LET m == [Machine EXCEPT !.surface = Surface_new(page),
                                !.fc = [FrameContext_new(doc[page].frame.size) EXCEPT !.annotations = fc.annotations]]
       IN Commit(record(m, "start_page", [size |-> size_as_krilla(doc[page].frame.size)]))
    /\ calls' = << [frame |-> doc[page].frame, fill |-> doc[page].fill, i |-> 1, clip |-> FALSE,
                    pf |-> NoReturn, hg |-> NoReturn] >>
    /\ pc' = "enter"
    /\ UNCHANGED <<doc, page, last, invocation>>

\* One turn of the loop over the pages, up to the call of process_frame.
start_page ==
    /\ pc = "pages"
    /\ page <= Len(doc)
    /\ LET m == [Machine EXCEPT !.surface = Surface_new(page),
                                !.fc = FrameContext_new(doc[page].frame.size)]
       IN Commit(record(m, "start_page", [size |-> size_as_krilla(doc[page].frame.size)]))
    /\ calls' = << [frame |-> doc[page].frame, fill |-> doc[page].fill, i |-> 1, clip |-> FALSE,
                    pf |-> NoReturn, hg |-> NoReturn] >>
    /\ pc' = "enter"
    /\ UNCHANGED <<doc, page, last, invocation>>

\* surface.finish() once the page's process_frame has returned.
finish_page ==
    /\ pc = "return"
    /\ Len(calls) = 1
    /\ Commit([record(Machine, "finish", [pending |-> Len(surface.stack)]) EXCEPT !.surface.finished = TRUE])
    /\ calls' = <<>>
    /\ pc' = "annotations"
    /\ UNCHANGED <<doc, page, last, invocation>>

RECURSIVE add_annotation(_, _)
\* page.add_annotation for each buffered annotation, in the buffer's order.
add_annotation(m, annotations) ==
    IF annotations = <<>> THEN m
    ELSE add_annotation(record(m, "add_annotation", [annotation |-> Head(annotations)]), Tail(annotations))

\* The loop over fc.annotations that ends the page.
add_annotations ==
    /\ pc = "annotations"
    /\ Commit(add_annotation(Machine, fc.annotations))
    /\ page' = page + 1
    /\ pc' = "pages"
    /\ UNCHANGED <<doc, calls, last, invocation>>

\* finish(document) after the last page.
pdf_finish ==
    /\ pc = "pages"
    /\ page > Len(doc)
    /\ Commit(record(Machine, "Document::finish", [pages |-> Len(doc)]))
    /\ pc' = "done"
    /\ UNCHANGED <<doc, page, calls, last, invocation>>

(***************************************************************************)
(* process_frame and handle_group.                                         *)
(***************************************************************************)
\* Entry of process_frame, up to its loop over the items.
process_frame_enter ==
    /\ pc = "enter"
    /\ LET frame == Top.frame
           m1 == [Machine EXCEPT !.fc = push(fc)]
           m2 == IF frame.kind = "hard"
                 THEN [m1 EXCEPT !.fc = state_mut(state_mut(m1.fc, set_container_transform(state(m1.fc))),
                                                  State_size(set_container_transform(state(m1.fc)), frame.size))]
                 ELSE m1
           shape == Shape(Rect(frame.size.x, frame.size.y), Some(Top.fill[1]), None)
           m3 == IF Top.fill # None THEN handle_shape(m2, shape) ELSE m2
       IN /\ Commit(m3)
          /\ last' = IF Top.fill # None THEN Returned("handle_shape", shape, m2, m3) ELSE last
          /\ calls' = [calls EXCEPT ![Len(calls)].pf = Returned("process_frame", Tag, Machine, Machine)]
    /\ pc' = "items"
    /\ UNCHANGED <<doc, page, invocation>>

\* Mutant of item_pushed: the translation is applied before the push, to
\* the state of the enclosing frame.
item_pushed_translate_first ==
    LET m1 == [Machine EXCEPT !.fc = state_mut(fc, State_transform(state(fc), translate(Item.point.x, Item.point.y)))]
    IN [m1 EXCEPT !.fc = push(m1.fc)]

\* The machine an item's handler is entered with: the item's push and the
\* translation to its origin.
item_pushed ==
    LET m1 == [Machine EXCEPT !.fc = push(fc)]
    IN [m1 EXCEPT !.fc = state_mut(m1.fc, State_transform(state(m1.fc), translate(Item.point.x, Item.point.y)))]

\* The rest of the loop's turn once the handler fn has returned the machine
\* m (or panicked in it): the item's pop, and on to the next item.
process_item(m, fn) ==
    /\ IF m.panicked
       THEN /\ Commit(m)
            /\ pc' = "panicked"
            /\ UNCHANGED <<calls, last>>
       ELSE /\ Commit([m EXCEPT !.fc = pop(m.fc)])
            /\ pc' = "items"
            /\ calls' = Advance
            /\ last' = Turn(fn, Item.item, item_pushed, m, fc.states, pop(m.fc).states)
    /\ UNCHANGED <<doc, page, invocation>>

process_text ==
    /\ AtItem
    /\ Item.item.type = "text"
    /\ process_item(handle_text(item_pushed, Item.item), "handle_text")

process_shape ==
    /\ AtItem
    /\ Item.item.type = "shape"
    /\ process_item(handle_shape(item_pushed, Item.item), "handle_shape")

process_image ==
    /\ AtItem
    /\ Item.item.type = "image"
    /\ process_item(handle_image(item_pushed, Item.item, Item.item.size), "handle_image")

process_link ==
    /\ AtItem
    /\ Item.item.type = "link"
    /\ process_item(write_link(item_pushed, Item.item.dest, Item.item.size), "write_link")

process_tag ==
    /\ AtItem
    /\ Item.item.type = "tag"
    /\ process_item(item_pushed, "tag")

\* Mutant of handle_group_enter: a clip path that is present is pushed (and
\* later popped) even when it converts to no path.
handle_group_enter_clip_unchecked ==
    /\ AtItem
    /\ Item.item.type = "group"
    /\ LET group == Item.item
           m2 == item_pushed
           m3 == [m2 EXCEPT !.fc = push(m2.fc)]
           m4 == [m3 EXCEPT !.fc = state_mut(m3.fc, State_transform(state(m3.fc), group.transform))]
           clip_path == IF group.clip_path = None THEN None
                        ELSE path_transform(convert_path(group.clip_path[1], <<>>), as_krilla(state(m4.fc).transform))
           m5 == IF clip_path # None THEN push_clip_path(m4, clip_path[1], "NonZero") ELSE m4
       IN /\ Commit(m5)
          /\ calls' = Append(calls, [frame |-> group.frame, fill |-> None, i |-> 1, clip |-> clip_path # None,
                                     pf |-> NoReturn, hg |-> Turn("handle_group", group, m2, m2, fc.states, fc.states)])
    /\ pc' = "enter"
    /\ UNCHANGED <<doc, page, last, invocation>>

\* Mutant of handle_group_enter: the group's transform is pushed on the
\* surface too.
handle_group_enter_transform_pushed ==
    /\ AtItem
    /\ Item.item.type = "group"
    /\ LET group == Item.item
           m2 == item_pushed
           m3 == [m2 EXCEPT !.fc = push(m2.fc)]
           m4 == push_transform([m3 EXCEPT !.fc = state_mut(m3.fc, State_transform(state(m3.fc), group.transform))],
                                as_krilla(group.transform))
           built == IF group.clip_path = None THEN None ELSE pb_finish(convert_path(group.clip_path[1], <<>>))
           clip_path == IF built = None THEN None ELSE path_transform(built[1], as_krilla(state(m4.fc).transform))
           m5 == IF clip_path # None THEN push_clip_path(m4, clip_path[1], "NonZero") ELSE m4
       IN /\ Commit(m5)
          /\ calls' = Append(calls, [frame |-> group.frame, fill |-> None, i |-> 1, clip |-> clip_path # None,
                                     pf |-> NoReturn, hg |-> Turn("handle_group", group, m2, m2, fc.states, fc.states)])
    /\ pc' = "enter"
    /\ UNCHANGED <<doc, page, last, invocation>>

\* A group item: the item's push and translation, then handle_group up to
\* its call of process_frame.
handle_group_enter ==
    /\ AtItem
    /\ Item.item.type = "group"
    /\ LET group == Item.item
           m2 == item_pushed
           m3 == [m2 EXCEPT !.fc = push(m2.fc)]
           m4 == [m3 EXCEPT !.fc = state_mut(m3.fc, State_transform(state(m3.fc), group.transform))]
           built == IF group.clip_path = None THEN None ELSE pb_finish(convert_path(group.clip_path[1], <<>>))
           clip_path == IF built = None THEN None ELSE path_transform(built[1], as_krilla(state(m4.fc).transform))
           m5 == IF clip_path # None THEN push_clip_path(m4, clip_path[1], "NonZero") ELSE m4
       IN /\ Commit(m5)
          /\ calls' = Append(calls, [frame |-> group.frame, fill |-> None, i |-> 1, clip |-> clip_path # None,
                                     pf |-> NoReturn, hg |-> Turn("handle_group", group, m2, m2, fc.states, fc.states)])
    /\ pc' = "enter"
    /\ UNCHANGED <<doc, page, last, invocation>>

\* Mutant of process_frame_exit: process_frame returns without its last pop.
process_frame_exit_without_pop ==
    /\ pc = "items"
    /\ Top.i > Len(Top.frame.items)
    /\ Commit(Machine)
    /\ last' = [Top.pf EXCEPT !.states_out = Len(fc.states), !.surface_out = Len(surface.stack),
                              !.log_out = Len(log), !.annotations_out = Len(fc.annotations),
                              !.stack_out = fc.states]
    /\ pc' = "return"
    /\ UNCHANGED <<doc, page, calls, invocation>>

\* The end of the loop over the items: the pop that ends process_frame.
process_frame_exit ==
    /\ pc = "items"
    /\ Top.i > Len(Top.frame.items)
    /\ Commit([Machine EXCEPT !.fc = pop(fc)])
    /\ last' = [Top.pf EXCEPT !.states_out = Len(pop(fc).states), !.surface_out = Len(surface.stack),
                              !.log_out = Len(log), !.annotations_out = Len(fc.annotations),
                              !.stack_out = pop(fc).states]
    /\ pc' = "return"
    /\ UNCHANGED <<doc, page, calls, invocation>>

\* handle_group after its process_frame has returned, then the item's pop
\* in the caller's loop.
handle_group_exit ==
    /\ pc = "return"
    /\ Len(calls) > 1
    /\ LET m1 == IF Top.clip THEN surface_pop(Machine) ELSE Machine
           m2 == [m1 EXCEPT !.fc = pop(m1.fc)]
       IN /\ Commit([m2 EXCEPT !.fc = pop(m2.fc)])
          /\ last' = [Top.hg EXCEPT !.states_out = Len(m2.fc.states), !.surface_out = Len(m2.surface.stack),
                                    !.log_out = Len(m2.log), !.annotations_out = Len(m2.fc.annotations),
                                    !.stack_out = pop(m2.fc).states]
    /\ calls' = [SubSeq(calls, 1, Len(calls) - 1) EXCEPT ![Len(calls) - 1].i = @ + 1]
    /\ pc' = "items"
    /\ UNCHANGED <<doc, page, invocation>>

Next ==
    \/ pdf_start
    \/ start_page
    \/ process_frame_enter
    \/ process_text
    \/ process_shape
    \/ process_image
    \/ process_link
    \/ process_tag
    \/ handle_group_enter
    \/ process_frame_exit
    \/ handle_group_exit
    \/ finish_page
    \/ add_annotations
    \/ pdf_finish

Spec == Init /\ [][Next]_vars

(***************************************************************************)
(* Reading the record of backend calls.                                    *)
(***************************************************************************)
IsPrefix(a, b) == Len(a) <= Len(b) /\ a = SubSeq(b, 1, Len(a))

\* The calls of page p whose operation is in ops, in the order received.
CallsOf(ops, p) == SelectSeq(log, LAMBDA e : e.op \in ops /\ e.page = p)

Count(ops, p) == Len(CallsOf(ops, p))

\* The pages whose surface.finish() has been called.
FinishedPages == { log[i].page : i \in { j \in DOMAIN log : log[j].op = "finish" } }

Traversing == pc \in {"enter", "items", "return"}

(***************************************************************************)
(* C1: the state stack is as long when process_frame, handle_group,        *)
(* handle_text, handle_shape, handle_image or write_link returns as it was *)
(* when that call was entered, and it is never empty during the traversal. *)
(***************************************************************************)
C1_StateStackBalanced ==
    /\ last.fn \in {"process_frame", "handle_group", "handle_text", "handle_shape", "handle_image", "write_link"}
          => last.states_out = last.states_in
    /\ Traversing => Len(fc.states) >= 1

\* handle_group has returned for a group nested in another group.
C1_Witness == last.fn = "handle_group" /\ last.states_in = 6 /\ last.states_out = 6 /\ pc = "items"

(***************************************************************************)
(* C2: handle_group, handle_text, handle_shape and handle_image return     *)
(* with the surface stack as deep as at their entry; no pop meets an empty *)
(* surface stack; at surface.finish() nothing is pending and the page has  *)
(* seen as many pops as push_transform and push_clip_path calls.           *)
(***************************************************************************)
C2_SurfaceBalanced ==
    /\ last.fn \in {"handle_group", "handle_text", "handle_shape", "handle_image"}
          => last.surface_out = last.surface_in
    /\ ~surface.underflow
    /\ \A i \in DOMAIN log : log[i].op = "finish" => log[i].arg.pending = 0
    /\ \A p \in FinishedPages : Count({"pop"}, p) = Count({"push_transform", "push_clip_path"}, p)

\* A page is finished on which nested clips and several transforms were pushed.
C2_Witness ==
    /\ pc = "annotations"
    /\ Count({"push_clip_path"}, page) >= 2
    /\ Count({"push_transform"}, page) >= 3
    /\ page \in FinishedPages

(***************************************************************************)
(* What the frame tree of a page calls for, by descent through the tree:   *)
(* the draw calls in pre-order, each with the transform from the page root *)
(* to the item (a backend row) and the container of the nearest enclosing  *)
(* hard frame.                                                             *)
(***************************************************************************)
k_translate(p) == <<1, 0, 0, 1, p.x, p.y>>

Expected(op, subject, t, container, container_size) ==
    [op |-> op, subject |-> subject, ctm |-> t, container |-> container, container_size |-> container_size]

\* An empty builder or a lone MoveTo gives no path; a Line or a Rect always gives one.
HasPath(geometry) == geometry.g # "path" \/ Len(geometry.items) > 1

RECURSIVE ExpectedItems(_, _, _, _)
\* The draw calls of the items of a frame entered with the transform t.
ExpectedItems(items, t, container, container_size) ==
    IF items = <<>> THEN <<>>
    ELSE LET it == Head(items).item
             at == k_concat(t, k_translate(Head(items).point))
             here ==
                CASE it.type = "text" ->
                        << Expected("fill_glyphs", it.font, at, container, container_size) >>
                          \o (IF it.stroke = None THEN <<>>
                              ELSE << Expected("stroke_glyphs", it.font, at, container, container_size) >>)
                  [] it.type = "shape" ->
                        (IF HasPath(it.geometry) /\ it.fill # None
                         THEN << Expected("fill_path", it.fill[1], at, container, container_size) >> ELSE <<>>)
                          \o (IF HasPath(it.geometry) /\ it.stroke # None /\ it.stroke[1].thickness > 0
                              THEN << Expected("stroke_path", it.stroke[1].paint, at, container, container_size) >>
                              ELSE <<>>)
                  [] it.type = "image" ->
                        << Expected(IF it.kind = "raster" THEN "draw_image" ELSE "draw_svg", it.id, at,
                                    container, container_size) >>
                  [] it.type = "group" ->
                        LET inner == k_concat(at, as_krilla(it.transform))
                        IN IF it.frame.kind = "hard"
                           THEN ExpectedItems(it.frame.items, inner, inner, it.frame.size)
                           ELSE ExpectedItems(it.frame.items, inner, container, container_size)
                  [] OTHER -> <<>>
         IN here \o ExpectedItems(Tail(items), t, container, container_size)

\* The draw calls of a page: its background, then its items.
ExpectedPage(pg) ==
    (IF pg.fill = None THEN <<>>
     ELSE << Expected("fill_path", pg.fill[1], k_identity, k_identity, pg.frame.size) >>)
      \o ExpectedItems(pg.frame.items, k_identity, k_identity, pg.frame.size)

\* The paint, font or image a recorded draw call was made with.
Subject(e) ==
    CASE e.op \in {"fill_path", "stroke_path"} -> e.arg.paint.paint
      [] e.op \in {"fill_glyphs", "stroke_glyphs"} -> e.arg.font.data
      [] e.op \in {"draw_image", "draw_svg"} -> e.arg.image.data

PaintOps == {"fill_path", "stroke_path", "fill_glyphs", "stroke_glyphs"}

Pages == 1..Len(doc)

\* seen, the calls received so far for a page, against all that the page
\* calls for: a prefix of it, and the whole once the page is finished.
Agrees(seen, expected, p) == IsPrefix(seen, expected) /\ (p \in FinishedPages => seen = expected)

(***************************************************************************)
(* C3: at every draw call of a text, shape or image item the transform in  *)
(* effect on the surface (all pending transforms composed) is the          *)
(* composition, from the page root down, of each ancestor group's origin   *)
(* translation and group transform, then the translation to the item's    *)
(* origin, whatever its siblings and its depth.                            *)
(***************************************************************************)
C3_DrawTransform ==
    \A p \in Pages :
        LET seen == CallsOf(DrawOps, p)
            expected == ExpectedPage(doc[p])
        IN Agrees([i \in DOMAIN seen |-> <<seen[i].op, seen[i].ctm>>],
                  [i \in DOMAIN expected |-> <<expected[i].op, expected[i].ctm>>], p)

\* A page is finished that drew below two clipped groups, one of them turned,
\* and again after them.
C3_Witness ==
    /\ pc = "annotations"
    /\ \E i, j \in DOMAIN log : /\ i < j
                                /\ log[i].op \in DrawOps /\ log[i].depth = 3 /\ log[i].ctm[2] # 0
                                /\ log[j].op \in DrawOps /\ log[j].depth = 1 /\ log[j].ctm = k_translate(Point(5, 0))

(***************************************************************************)
(* C4: the Transforms a paint is built with carry, as container transform  *)
(* chain and container size, the transform chain at the entry of the       *)
(* nearest enclosing hard frame and that frame's size, or the identity and *)
(* the page frame's size below no hard frame; after a nested hard group    *)
(* the following items see the outer container again.                      *)
(***************************************************************************)
C4_Container ==
    \A p \in Pages :
        LET seen == CallsOf(PaintOps, p)
            expected == SelectSeq(ExpectedPage(doc[p]), LAMBDA x : x.op \in PaintOps)
        IN Agrees([i \in DOMAIN seen |-> <<seen[i].op, as_krilla(seen[i].arg.paint.transforms.container_transform_chain),
                                           seen[i].arg.paint.transforms.container_size>>],
                  [i \in DOMAIN expected |-> <<expected[i].op, expected[i].container, expected[i].container_size>>], p)

\* A paint was built inside a nested hard group, and a later one, after the
\* group, with the page as its container again.
C4_Witness ==
    /\ pc = "annotations"
    /\ \E i, j \in DOMAIN log :
          /\ i < j
          /\ log[i].op \in PaintOps /\ log[j].op \in PaintOps
          /\ log[i].arg.paint.transforms.container_transform_chain # identity
          /\ log[i].arg.paint.transforms.container_size = Size(40, 40)
          /\ log[j].arg.paint.transforms.container_transform_chain = identity
          /\ log[j].arg.paint.transforms.container_size = doc[page].frame.size

(***************************************************************************)
(* C5: within a page the draw calls reach the surface in pre-order of the  *)
(* frame tree, the background fill first and an item's fill before its     *)
(* stroke; pages are processed in input order, and no draw call of a page  *)
(* is made before surface.finish() of the pages before it.                 *)
(***************************************************************************)
C5_DrawOrder ==
    /\ \A p \in Pages :
          LET seen == CallsOf(DrawOps, p)
              expected == ExpectedPage(doc[p])
          IN Agrees([i \in DOMAIN seen |-> <<seen[i].op, Subject(seen[i])>>],
                    [i \in DOMAIN expected |-> <<expected[i].op, expected[i].subject>>], p)
    /\ LET started == SelectSeq(log, LAMBDA e : e.op = "start_page")
       IN \A i \in DOMAIN started : started[i].page = i
    /\ \A i \in DOMAIN log :
          log[i].op \in DrawOps =>
             \A q \in 1..(log[i].page - 1) : \E j \in 1..(i - 1) : log[j].op = "finish" /\ log[j].page = q

\* A two-page document is done: on its first page a fill and then a stroke
\* inside a group, then a draw call after the group, then a draw on page two.
C5_Witness ==
    /\ pc = "done"
    /\ Len(doc) = 2
    /\ \E i, j, k, l \in DOMAIN log :
          /\ i < j /\ j < k /\ k < l
          /\ log[i].op = "fill_path" /\ log[i].page = 1 /\ log[i].depth = 2
          /\ log[j].op = "stroke_path" /\ log[j].page = 1 /\ log[j].depth = 2
          /\ log[k].op \in DrawOps /\ log[k].page = 1 /\ log[k].depth = 1
          /\ log[l].op \in DrawOps /\ log[l].page = 2

(***************************************************************************)
(* The link annotations a page calls for, by descent through the tree: in  *)
(* traversal order, one for each link to a URL or a position, its box the  *)
(* bounds of the link's corners under the transform from the page root.    *)
(***************************************************************************)
\* The bounds of the box (0,0)-(size.x,size.y) under the backend row t.
BoxUnder(t, size) ==
    LET xs == { t[1] * x + t[3] * y + t[5] : x \in {0, size.x}, y \in {0, size.y} }
        ys == { t[2] * x + t[4] * y + t[6] : x \in {0, size.x}, y \in {0, size.y} }
    IN [l |-> CHOOSE a \in xs : \A b \in xs : a <= b, t |-> CHOOSE a \in ys : \A b \in ys : a <= b,
        r |-> CHOOSE a \in xs : \A b \in xs : a >= b, b |-> CHOOSE a \in ys : \A b \in ys : a >= b]

RECURSIVE ExpectedLinks(_, _)
ExpectedLinks(items, t) ==
    IF items = <<>> THEN <<>>
    ELSE LET it == Head(items).item
             at == k_concat(t, k_translate(Head(items).point))
             here ==
                CASE it.type = "link" /\ it.dest.d = "url" ->
                        << [rect |-> BoxUnder(at, it.size), target |-> <<"Action", it.dest.url>>] >>
                  [] it.type = "link" /\ it.dest.d = "position" ->
                        << [rect |-> BoxUnder(at, it.size), target |-> <<"Destination", it.dest.page - 1, it.dest.point>>] >>
                  [] it.type = "group" -> ExpectedLinks(it.frame.items, k_concat(at, as_krilla(it.transform)))
                  [] OTHER -> <<>>
         IN here \o ExpectedLinks(Tail(items), t)

\* The target of a recorded annotation, as ExpectedLinks writes it.
TargetOf(a) ==
    IF a.target.target = "Action" THEN <<"Action", a.target.url>>
    ELSE <<"Destination", a.target.page, a.target.point>>

\* The annotations added to page p so far, in the order of page.add_annotation.
Added(p) == LET added == CallsOf({"add_annotation"}, p) IN [i \in DOMAIN added |-> added[i].arg.annotation]

\* The pages whose loop over fc.annotations has run.
Flushed == { p \in Pages : p < page \/ pc = "done" }

(***************************************************************************)
(* C6: every page starts with an empty annotation buffer; each emitted     *)
(* link appends one annotation, in traversal order; the buffer is added to *)
(* that page in that order, after the page's surface.finish(); none is     *)
(* lost, doubled, or added to another page.                                *)
(***************************************************************************)
C6_Annotations ==
    /\ pc = "enter" /\ Len(calls) = 1 => fc.annotations = <<>>
    /\ Traversing \/ pc = "annotations" =>
          LET expected == ExpectedLinks(doc[page].frame.items, k_identity)
              buffered == [i \in DOMAIN fc.annotations |-> TargetOf(fc.annotations[i])]
          IN /\ IsPrefix(buffered, [i \in DOMAIN expected |-> expected[i].target])
             /\ pc \in {"return", "annotations"} /\ Len(calls) <= 1 => Len(buffered) = Len(expected)
    /\ \A p \in Pages :
          LET expected == ExpectedLinks(doc[p].frame.items, k_identity)
              added == Added(p)
          IN IF p \in Flushed
             THEN [i \in DOMAIN added |-> TargetOf(added[i])] = [i \in DOMAIN expected |-> expected[i].target]
             ELSE added = <<>>
    /\ \A i \in DOMAIN log :
          log[i].op = "add_annotation" => \E j \in 1..(i - 1) : log[j].op = "finish" /\ log[j].page = log[i].page

\* Two pages with links are done: two annotations on the first, in traversal
\* order, and one on the second.
C6_Witness ==
    /\ pc = "done"
    /\ Len(doc) = 2
    /\ Len(Added(1)) = 2 /\ Len(Added(2)) = 1
    /\ Added(1)[1].target.target = "Destination" /\ Added(1)[2].target.target = "Action"

(***************************************************************************)
(* C7: within one pdf() a font used by one or more text items, on any page *)
(* and at any depth, is built by exactly one Font::new call, and every     *)
(* text item using it is drawn with the handle of that call; the font map  *)
(* is empty at the start of every pdf().                                   *)
(***************************************************************************)
RECURSIVE FontsIn(_)
\* The fonts of the text items of a list of items, groups included.
FontsIn(items) ==
    IF items = <<>> THEN {}
    ELSE LET it == Head(items).item
         IN (CASE it.type = "text" -> {it.font}
               [] it.type = "group" -> FontsIn(it.frame.items)
               [] OTHER -> {})
              \cup FontsIn(Tail(items))

FontsOfDocument == UNION { FontsIn(doc[p].frame.items) : p \in Pages }

C7_FontBuiltOnce ==
    LET built == SelectSeq(log, LAMBDA e : e.op = "Font::new")
        glyphs == SelectSeq(log, LAMBDA e : e.op \in {"fill_glyphs", "stroke_glyphs"})
        calls_for(f) == Cardinality({ i \in DOMAIN built : built[i].arg.font = f })
    IN /\ \A i \in DOMAIN built : built[i].arg.font \in FontsOfDocument /\ calls_for(built[i].arg.font) = 1
       /\ \A i \in DOMAIN glyphs :
             LET h == glyphs[i].arg.font
             IN /\ calls_for(h.data) = 1
                /\ h.id \in DOMAIN built
                /\ built[h.id].arg.font = h.data
       /\ pc = "done" => \A f \in FontsOfDocument : calls_for(f) = 1
       /\ pc = "pages" /\ page = 1 => gc.fonts = <<>>

\* The second pdf() of a two-page document is done: one font drawn six
\* times and another twice, on both pages and inside a group, two Font::new.
C7_Witness ==
    /\ pc = "done"
    /\ invocation = 2
    /\ Len(doc) = 2
    /\ Cardinality({ i \in DOMAIN log : log[i].op = "fill_glyphs" /\ log[i].arg.font.data = "F1" }) = 6
    /\ Cardinality({ i \in DOMAIN log : log[i].op = "fill_glyphs" /\ log[i].arg.font.data = "F2" }) = 2
    /\ Cardinality({ i \in DOMAIN log : log[i].op = "Font::new" }) = 2

(***************************************************************************)
(* C8: within one pdf() a raster image drawn one or more times, on any     *)
(* page, is decoded exactly once: the decoded handle is memoized by raster *)
(* identity and every later draw_image of that raster is made with the     *)
(* handle of that one decode.                                              *)
(***************************************************************************)
RECURSIVE RastersIn(_)
\* The rasters of the image items of a list of items, groups included.
RastersIn(items) ==
    IF items = <<>> THEN {}
    ELSE LET it == Head(items).item
         IN (CASE it.type = "image" /\ it.kind = "raster" -> {it.id}
               [] it.type = "group" -> RastersIn(it.frame.items)
               [] OTHER -> {})
              \cup RastersIn(Tail(items))

RastersOfDocument == UNION { RastersIn(doc[p].frame.items) : p \in Pages }

C8_RasterDecodedOnce ==
    LET decoded == SelectSeq(log, LAMBDA e : e.op = "decode")
        drawn == SelectSeq(log, LAMBDA e : e.op = "draw_image")
        decodes_of(r) == Cardinality({ i \in DOMAIN decoded : decoded[i].arg.raster = r })
    IN /\ \A r \in RastersOfDocument : decodes_of(r) <= 1
       /\ \A i \in DOMAIN drawn :
             LET h == drawn[i].arg.image
             IN /\ decodes_of(h.data) = 1
                /\ h.id \in DOMAIN decoded
                /\ decoded[h.id].arg.raster = h.data

(***************************************************************************)
(* C9: the rectangle of the annotation of a link to a URL or a position is *)
(* the bounds of the four corners of (0,0)-(size.x,size.y) under the       *)
(* item's transform, in page coordinates: the origins and transforms of    *)
(* all enclosing groups and the link's own origin are in it.  A link of    *)
(* size 40x20 at (30,10) of the page frame gets (30,10)-(70,30).           *)
(***************************************************************************)
C9_LinkRect ==
    /\ Traversing \/ pc = "annotations" =>
          LET expected == ExpectedLinks(doc[page].frame.items, k_identity)
          IN IsPrefix([i \in DOMAIN fc.annotations |-> fc.annotations[i].rect],
                      [i \in DOMAIN expected |-> expected[i].rect])
    /\ \A p \in Flushed :
          LET expected == ExpectedLinks(doc[p].frame.items, k_identity)
              added == Added(p)
          IN /\ [i \in DOMAIN added |-> added[i].rect] = [i \in DOMAIN expected |-> expected[i].rect]
             /\ doc[p] = LinkPage => added = << [rect |-> [l |-> 30, t |-> 10, r |-> 70, b |-> 30],
                                                 target |-> [target |-> "Action", url |-> "https://x",
                                                             page |-> 0, point |-> Point(0, 0)]] >>

\* Done: the link at (30,10) of the page frame, and on the next page a link
\* at (1,2) of a group scaled by (2,3) at (10,10).
C9_Witness ==
    /\ pc = "done"
    /\ doc = << LinkPage, LinksPage >>
    /\ Added(1)[1].rect = [l |-> 30, t |-> 10, r |-> 70, b |-> 30]
    /\ Added(2)[1].rect = [l |-> 12, t |-> 16, r |-> 32, b |-> 46]

(***************************************************************************)
(* C10: a link to a Location is skipped where it stands: write_link adds   *)
(* no annotation and calls the surface not at all, leaves both stacks as   *)
(* they were, never stops the traversal, and the draw calls and the        *)
(* annotations of the document are those of the document without its       *)
(* Location links.                                                         *)
(***************************************************************************)
RECURSIVE WithoutLocations(_)
\* The items with every link to a Location removed, inside groups too.
WithoutLocations(items) ==
    IF items = <<>> THEN <<>>
    ELSE LET it == Head(items).item
             rest == WithoutLocations(Tail(items))
         IN CASE it.type = "link" /\ it.dest.d = "location" -> rest
              [] it.type = "group" ->
                    << At(Head(items).point, Group(it.transform, it.clip_path,
                          Frame(it.frame.kind, it.frame.size, WithoutLocations(it.frame.items)))) >> \o rest
              [] OTHER -> << Head(items) >> \o rest

C10_LocationSkipped ==
    /\ last.fn = "write_link" /\ last.item.dest.d = "location" =>
          /\ last.log_out = last.log_in
          /\ last.annotations_out = last.annotations_in
          /\ last.states_out = last.states_in
          /\ last.surface_out = last.surface_in
    /\ pc = "panicked" => Item.item.type \in {"text", "image"}
    /\ \A p \in Pages :
          LET without == Page(Frame(doc[p].frame.kind, doc[p].frame.size, WithoutLocations(doc[p].frame.items)), doc[p].fill)
              seen == CallsOf(DrawOps, p)
              draws == ExpectedPage(without)
              links == ExpectedLinks(without.frame.items, k_identity)
              added == Added(p)
          IN /\ Agrees([i \in DOMAIN seen |-> <<seen[i].op, Subject(seen[i]), seen[i].ctm>>],
                       [i \in DOMAIN draws |-> <<draws[i].op, draws[i].subject, draws[i].ctm>>], p)
             /\ p \in Flushed =>
                   [i \in DOMAIN added |-> <<added[i].rect, TargetOf(added[i])>>]
                      = [i \in DOMAIN links |-> <<links[i].rect, links[i].target>>]

\* Done: a first page with a Location link before a group and another one
\* inside it, with the draw calls and the annotations that follow them, and
\* a second page drawn after it.
C10_Witness ==
    /\ pc = "done"
    /\ Len(doc) = 2
    /\ doc[1] = LinksPage
    /\ Count(DrawOps, 1) = 3
    /\ Len(Added(1)) = 2
    /\ Count(DrawOps, 2) >= 1

(***************************************************************************)
(* C11: every transform or clip path a handler pushes on the surface is    *)
(* popped on every way out of the handler, a fatal failure included: when  *)
(* a rejected font stops handle_text or an undecodable raster stops        *)
(* handle_image, the surface holds no more than at the handler's entry,    *)
(* that is one clip per enclosing group that pushed one.                   *)
(***************************************************************************)
\* The depth of the surface stack at the entry of the handler of the current
\* item: the clips of the groups that enclose it.
DepthAtHandlerEntry == Cardinality({ i \in DOMAIN calls : calls[i].clip })

C11_ReleasedOnFailure ==
    pc = "panicked" =>
        /\ Len(surface.stack) = DepthAtHandlerEntry
        /\ \A i \in DOMAIN surface.stack : surface.stack[i].kind = "clip"

(***************************************************************************)
(* C12 as stated: once the root process_frame of a page has returned, and  *)
(* so after pdf() has returned, the state stack of the page's FrameContext *)
(* holds no State.                                                         *)
(***************************************************************************)
\* The root process_frame of the page of fc has returned.
RootReturned ==
    \/ pc = "return" /\ Len(calls) = 1
    \/ pc = "annotations"
    \/ pc \in {"pages", "done"} /\ page > 1

\* The page fc belongs to.
PageOfContext == IF pc \in {"pages", "done"} THEN page - 1 ELSE page

C12_StackEmpty == RootReturned => Len(fc.states) = 0

(***************************************************************************)
(* C12 amended: once the root process_frame of a page has returned, and so *)
(* after pdf() has returned, the state stack of the page's FrameContext    *)
(* holds exactly the one State FrameContext::new put there, unchanged.     *)
(***************************************************************************)
C12_StackBackToBase == RootReturned => fc.states = FrameContext_new(doc[PageOfContext].frame.size).states

\* pdf() has returned for a document whose last page has a hard root frame
\* and clips pushed by nested groups.
C12_Witness ==
    /\ pc = "done"
    /\ doc[PageOfContext].frame.kind = "hard"
    /\ Count({"push_clip_path"}, PageOfContext) >= 2
    /\ Len(fc.states) = 1

(***************************************************************************)
(* C13: an item whose stroke has a thickness of 0 or less, a shape or a    *)
(* text run, gets no stroke call (stroke_path, stroke_glyphs) and its fill *)
(* call is made as without the stroke; a shape with a non-empty path and a *)
(* stroke thicker than 0 gets exactly one stroke_path.                     *)
(***************************************************************************)
\* The backend calls made during the call that returned last.
CallsDuringLast == SubSeq(log, last.log_in + 1, last.log_out)

\* How many of them are calls of op.
DuringLast(op) == Cardinality({ i \in DOMAIN CallsDuringLast : CallsDuringLast[i].op = op })

C13_NoStrokeWithoutThickness ==
    /\ last.fn = "handle_shape" =>
          LET shape == last.item
              has_path == pb_finish(shape_path(shape.geometry)) # None
          IN /\ shape.stroke # None /\ shape.stroke[1].thickness <= 0 =>
                   /\ DuringLast("stroke_path") = 0
                   /\ DuringLast("fill_path") = IF has_path /\ shape.fill # None THEN 1 ELSE 0
             /\ has_path /\ shape.stroke # None /\ shape.stroke[1].thickness > 0 =>
                   DuringLast("stroke_path") = 1
    /\ last.fn = "handle_text" =>
          LET t == last.item
          IN t.stroke # None /\ t.stroke[1].thickness <= 0 =>
                /\ DuringLast("stroke_glyphs") = 0
                /\ DuringLast("fill_glyphs") = 1

(***************************************************************************)
(* C14: handle_group pushes a clip on the surface if and only if the group *)
(* has a clip path and that path converts to a non-empty path.  The push   *)
(* then precedes every call made for the group's descendants and exactly   *)
(* one pop, its own, follows the last of them.  Without a clip path, or    *)
(* with one that converts to an empty path, handle_group itself makes no   *)
(* surface push and no surface pop, and the children are drawn all the     *)
(* same.                                                                   *)
(***************************************************************************)
\* The group's clip path is present and converts to a non-empty path.
Clips(group) == group.clip_path # None /\ pb_finish(convert_path(group.clip_path[1], <<>>)) # None

RECURSIVE ClippingGroupsIn(_)
\* How many groups among the items, at any depth, clip.
ClippingGroupsIn(items) ==
    IF items = <<>> THEN 0
    ELSE LET it == Head(items).item
         IN (IF it.type = "group"
             THEN (IF Clips(it) THEN 1 ELSE 0) + ClippingGroupsIn(it.frame.items)
             ELSE 0) + ClippingGroupsIn(Tail(items))

C14_ClipIffPath ==
    last.fn = "handle_group" =>
        LET group == last.item
            during == CallsDuringLast
            n == Len(during)
            \* the calls made for the descendants: all but the group's own push and pop
            inner == IF Clips(group) THEN SubSeq(during, 2, n - 1) ELSE during
            count(ops) == Cardinality({ i \in DOMAIN inner : inner[i].op \in ops })
        IN /\ Clips(group) =>
                 /\ n >= 2
                 /\ during[1].op = "push_clip_path" /\ during[1].depth = last.surface_in
                 /\ during[n].op = "pop" /\ during[n].depth = last.surface_in + 1
                 /\ \A i \in DOMAIN inner : inner[i].depth >= last.surface_in + 1
           /\ count({"push_clip_path"}) = ClippingGroupsIn(group.frame.items)
           /\ count({"pop"}) = count({"push_clip_path", "push_transform"})
           /\ count(DrawOps) = Len(ExpectedItems(group.frame.items, k_identity, k_identity, Size(0, 0)))

\* handle_group has returned for a clipping group that holds a group whose
\* clip path converts to an empty path, with items drawn in both.
C14_Witness ==
    /\ last.fn = "handle_group"
    /\ Clips(last.item)
    /\ \E i \in DOMAIN last.item.frame.items :
          LET it == last.item.frame.items[i].item
          IN it.type = "group" /\ it.clip_path # None /\ ~Clips(it)
                /\ Len(ExpectedItems(it.frame.items, k_identity, k_identity, Size(0, 0))) >= 1
    /\ DuringLast("push_clip_path") = 1
    /\ Len(CallsDuringLast) >= 6

(***************************************************************************)
(* C15: when the path built for a shape is empty (finish() yields no       *)
(* path), handle_shape does nothing: it makes no call of the surface at    *)
(* all, no push_transform, fill_path, stroke_path or pop, builds no paint, *)
(* and the next item is processed.                                         *)
(***************************************************************************)
C15_EmptyPathNothing ==
    last.fn = "handle_shape" /\ pb_finish(shape_path(last.item.geometry)) = None =>
        /\ last.log_out = last.log_in
        /\ last.surface_out = last.surface_in

(***************************************************************************)
(* C16: for Rect(w,h) with w < 0 or h < 0 the path handed to the backend   *)
(* is the rectangle of size |w| x |h| at the origin under                  *)
(* scale(sign(w), sign(h)): it covers the region spanned by (0,0) and      *)
(* (w,h); for w >= 0 and h >= 0 it is the rectangle (0,0,w,h), untouched.  *)
(* Either way a shape with a fill and no stroke gets one fill_path and no  *)
(* stroke_path.                                                            *)
(***************************************************************************)
\* The corners of a path: its points.
Corners(path) == { Point(path[i].x, path[i].y) : i \in { j \in DOMAIN path : path[j].verb # "Z" } }

C16_NegativeRect ==
    last.fn = "handle_shape" /\ last.item.geometry.g = "rect" =>
        LET w == last.item.geometry.x
            h == last.item.geometry.y
            paths == { CallsDuringLast[i].arg.path :
                         i \in { j \in DOMAIN CallsDuringLast : CallsDuringLast[j].op \in {"fill_path", "stroke_path"} } }
            reflected == path_transform(pb_push_rect(<<>>, [l |-> 0, t |-> 0, r |-> abs(w), b |-> abs(h)]),
                                        <<signum(w), 0, 0, signum(h), 0, 0>>)[1]
        IN /\ \A path \in paths :
                 /\ Corners(path) = { Point(0, 0), Point(w, 0), Point(0, h), Point(w, h) }
                 /\ Corners(path) = Corners(reflected)
                 /\ Len(path) = 5
                 /\ w >= 0 /\ h >= 0 => path = pb_push_rect(<<>>, [l |-> 0, t |-> 0, r |-> w, b |-> h])
           /\ last.item.fill # None /\ last.item.stroke = None =>
                 DuringLast("fill_path") = 1 /\ DuringLast("stroke_path") = 0 /\ paths # {}

\* handle_shape has returned for the filled Rect(-10, -20): the path drawn
\* runs from (-10,-20) to (0,0).
C16_Witness ==
    /\ last.fn = "handle_shape"
    /\ last.item.geometry = Rect(-10, -20)
    /\ DuringLast("fill_path") = 1
    /\ CallsDuringLast[2].arg.path[1] = [verb |-> "M", x |-> -10, y |-> -20]
    /\ CallsDuringLast[2].arg.path[3] = [verb |-> "L", x |-> 0, y |-> 0]

(***************************************************************************)
(* C17: a turn of process_frame's loop leaves the enclosing state as it    *)
(* was: after the item's dispatch and pop the state stack, and so its top  *)
(* State (transform, transform_chain, container_transform_chain, size), is *)
(* identical to what it was just before the item's push, whatever the item *)
(* (a group with nested transforms and hard frames too); a Tag moreover    *)
(* makes no surface call and adds no annotation.                           *)
(***************************************************************************)
ItemTurns == {"handle_text", "handle_shape", "handle_image", "write_link", "handle_group", "tag"}

C17_EnclosingStateKept ==
    /\ last.fn \in ItemTurns =>
          /\ last.stack_out = last.stack_in
          /\ last.stack_out # <<>>
          /\ pc = "items" /\ calls[Len(calls)].i > 1 /\ calls[Len(calls)].frame.items[calls[Len(calls)].i - 1].item = last.item
                => fc.states = last.stack_out
    /\ last.fn = "tag" =>
          /\ last.log_out = last.log_in
          /\ last.annotations_out = last.annotations_in
          /\ last.surface_out = last.surface_in

\* handle_group has returned for a hard group with a transform that holds
\* another hard group with a transform; the enclosing state is a hard page
\* frame's.
C17_Witness ==
    /\ last.fn = "handle_group"
    /\ pc = "items"
    /\ last.item.frame.kind = "hard" /\ last.item.transform # identity
    /\ \E i \in DOMAIN last.item.frame.items :
          LET it == last.item.frame.items[i].item
          IN it.type = "group" /\ it.frame.kind = "hard" /\ it.transform # identity
    /\ Len(fc.states) = 2
    /\ calls[1].frame.kind = "hard"
    /\ fc.states = last.stack_in

\* A Tag has been passed after an item that was drawn.
C17_TagWitness == last.fn = "tag" /\ pc = "items" /\ Len(log) >= 4

(***************************************************************************)
(* C18: in every State on the stack, at every point of the traversal, the  *)
(* fields transform and transform_chain are equal: both start as the       *)
(* identity, push() copies both, State::transform pre-concatenates the     *)
(* same transform onto both and nothing resets transform alone.  So the    *)
(* transform the handlers push on the surface is the full chain from the   *)
(* page origin.                                                            *)
(***************************************************************************)
C18_TransformIsChain ==
    /\ \A i \in DOMAIN fc.states : fc.states[i].transform = fc.states[i].transform_chain
    /\ \A i \in DOMAIN last.stack_in : last.stack_in[i].transform = last.stack_in[i].transform_chain
    /\ Traversing => fc.states[1].transform = identity
    /\ \A p \in Pages :
          LET pushed == CallsOf({"push_transform"}, p)
              drawn == CallsOf(DrawOps, p)
              expected == ExpectedPage(doc[p])
          IN \A i \in DOMAIN drawn : i \in DOMAIN expected =>
                \E j \in DOMAIN pushed : pushed[j].arg.t = expected[i].ctm

\* Inside a skewed group inside a rotated one: the state on top of the
\* stack holds the chain of both and of the origins on the way.
C18_Witness ==
    /\ pc = "items"
    /\ Len(fc.states) >= 6
    /\ state(fc).transform.kx # 0 /\ state(fc).transform.sx # 0
    /\ state(fc).transform = state(fc).transform_chain
    /\ state(fc).transform # fc.states[Len(fc.states) - 2].transform

(***************************************************************************)
(* C19: at most one transform is ever pending on the surface:              *)
(* push_transform comes from handle_text, handle_shape and handle_image    *)
(* only, each pops it before it returns and none recurses, and             *)
(* handle_group pushes clip paths only.  At every draw call the surface    *)
(* stack is one transform on top of one clip for each enclosing group that *)
(* pushed one, and the transform in effect is that single transform.       *)
(***************************************************************************)
RECURSIVE ExpectedClips(_, _)
\* For each draw call of the items, in order, the number of enclosing groups that clip.
ExpectedClips(items, clips) ==
    IF items = <<>> THEN <<>>
    ELSE LET it == Head(items).item
             here == IF it.type = "group"
                     THEN ExpectedClips(it.frame.items, clips + (IF Clips(it) THEN 1 ELSE 0))
                     ELSE [i \in DOMAIN ExpectedItems(<< Head(items) >>, k_identity, k_identity, Size(0, 0)) |-> clips]
         IN here \o ExpectedClips(Tail(items), clips)

PendingTransforms(pending) == { i \in DOMAIN pending : pending[i] = "transform" }

C19_OneTransformPending ==
    /\ Cardinality({ i \in DOMAIN surface.stack : surface.stack[i].kind = "transform" }) <= 1
    /\ \A i \in DOMAIN log :
          /\ Cardinality(PendingTransforms(log[i].pending)) <= 1
          /\ log[i].op = "push_transform" => PendingTransforms(log[i].pending) = {}
          /\ log[i].op \in DrawOps =>
                /\ log[i].depth >= 1
                /\ PendingTransforms(log[i].pending) = {log[i].depth}
                /\ \E j \in 1..(i - 1) :
                      /\ log[j].op = "push_transform" /\ log[j].arg.t = log[i].ctm
                      /\ \A k \in (j + 1)..(i - 1) : log[k].op \notin {"push_transform", "push_clip_path", "pop"}
    /\ \A p \in Pages :
          LET drawn == CallsOf(DrawOps, p)
              clips == (IF doc[p].fill = None THEN <<>> ELSE << 0 >>) \o ExpectedClips(doc[p].frame.items, 0)
          IN Agrees([i \in DOMAIN drawn |-> drawn[i].depth - 1], clips, p)

\* A page is finished on which an item was drawn under two clips and
\* another under none.
C19_Witness ==
    /\ pc = "annotations"
    /\ \E i \in DOMAIN log : log[i].op \in DrawOps /\ log[i].page = page /\ log[i].pending = << "clip", "clip", "transform" >>
    /\ \E i \in DOMAIN log : log[i].op \in DrawOps /\ log[i].page = page /\ log[i].pending = << "transform" >>

=============================================================================
